---- MODULE Spec2Model ----
(***************************************************************************)
(* mio, src/event/evented.rs: the Evented trait (register, reregister,     *)
(* deregister) and its blanket implementation for every T: Deref<Target =  *)
(* E> with E: Evented, which forwards each operation to self.deref().      *)
(*                                                                         *)
(* A handle is a system resource seen through `depth` layers of Deref      *)
(* wrappers (depth 0 is the resource itself, depth 2 a wrapper of a        *)
(* wrapper).  The concrete resource's own Evented implementation and the   *)
(* Registry it talks to are not part of evented.rs; they are modelled from *)
(* the specification's contract (Sys* operators, Poll).  There is one      *)
(* Registry; every call names it.                                          *)
(***************************************************************************)
EXTENDS Integers, Sequences, FiniteSets, TLC

\* Deepest nesting of Deref wrappers around a resource.
MaxDepth == 2

Resources == {"A", "B"}
\* Token is opaque to this layer: two distinct tokens, Token(5) and Token(7).
Tokens == {5, 7}
Readiness == {"readable", "writable"}
\* Interests is a non-empty set of readiness conditions.
InterestSets == (SUBSET Readiness) \ {{}}
Handles == [res : Resources, depth : 0..MaxDepth]

VARIABLES
    reg,    \* the Registry: the set of associations (resource, token, interests)
    alive,  \* alive[r]: resource r has not been dropped
    view,   \* view[r]: what the caller has been told by the results of its calls on r
    last,   \* the Evented call that has just returned, or NoCall
    event   \* the readiness event that has just been delivered, or NoEvent

vars == <<reg, alive, view, last, event>>

NoCall == [op |-> "none"]
NoEvent == [kind |-> "none"]

Assoc(r, token, interests) == [res |-> r, token |-> token, interests |-> interests]
AssocsOf(registry, r) == {a \in registry : a.res = r}

\* What one call returns: the io::Result, the registry after it, and the calls it
\* made on the way (outermost first).
Outcome(res, registry) == [res |-> res, reg |-> registry, calls |-> <<>>]

\* One invocation of an Evented operation on handle `on`: the registry and arguments
\* it was given and what it returned.
Invocation(op, on, registry, token, interests, res) ==
    [op |-> op, on |-> on, registry |-> registry, token |-> token,
     interests |-> interests, res |-> res]
InvocationNoArgs(op, on, registry, res) ==
    [op |-> op, on |-> on, registry |-> registry, res |-> res]

(***************************************************************************)
(* The concrete resource's Evented implementation (a system handle handing *)
(* itself to the registry's selector).  `fail` is the environment: TRUE    *)
(* when the underlying system call fails for a reason of its own.          *)
(***************************************************************************)
SysRegister(r, registry, token, interests, fail) ==
    IF AssocsOf(registry, r) # {} THEN Outcome("AlreadyRegistered", registry)
    ELSE IF fail THEN Outcome("SysErr", registry)
    ELSE Outcome("Ok", registry \cup {Assoc(r, token, interests)})

SysReregister(r, registry, token, interests, fail) ==
    IF AssocsOf(registry, r) = {} THEN Outcome("NotRegistered", registry)
    ELSE IF fail THEN Outcome("SysErr", registry)
    ELSE Outcome("Ok", (registry \ AssocsOf(registry, r)) \cup {Assoc(r, token, interests)})

SysDeregister(r, registry, fail) ==
    IF AssocsOf(registry, r) = {} THEN Outcome("NotRegistered", registry)
    ELSE IF fail THEN Outcome("SysErr", registry)
    ELSE Outcome("Ok", registry \ AssocsOf(registry, r))

\* self.deref(): one layer of wrapping removed.
deref(self) == [self EXCEPT !.depth = @ - 1]

RECURSIVE register(_, _, _, _, _)
RECURSIVE reregister(_, _, _, _, _)
RECURSIVE deregister(_, _, _)

\* Variants of the forwarding methods, each with one slip.
register_callsReregister(self, registry, token, interests, fail) ==
    IF self.depth = 0 THEN SysRegister(self.res, registry, token, interests, fail)
    ELSE LET inner == reregister(deref(self), registry, token, interests, fail)
         IN  [inner EXCEPT !.calls =
                 <<Invocation("reregister", deref(self), registry, token, interests, inner.res)>> \o @]

register_swallowsError(self, registry, token, interests, fail) ==
    IF self.depth = 0 THEN SysRegister(self.res, registry, token, interests, fail)
    ELSE LET inner == register(deref(self), registry, token, interests, fail)
         IN  [inner EXCEPT !.res = "Ok", !.calls =
                 <<Invocation("register", deref(self), registry, token, interests, inner.res)>> \o @]

register_retries(self, registry, token, interests, fail) ==
    IF self.depth = 0 THEN SysRegister(self.res, registry, token, interests, fail)
    ELSE LET first == register(deref(self), registry, token, interests, fail)
             again == register(deref(self), first.reg, token, interests, fail)
             once == <<Invocation("register", deref(self), registry, token, interests, first.res)>>
                         \o first.calls
         IN  IF first.res = "Ok" THEN [first EXCEPT !.calls = once]
             ELSE [again EXCEPT !.calls =
                     once \o <<Invocation("register", deref(self), first.reg, token,
                                          interests, again.res)>> \o @]

reregister_callsRegister(self, registry, token, interests, fail) ==
    IF self.depth = 0 THEN SysReregister(self.res, registry, token, interests, fail)
    ELSE LET inner == register(deref(self), registry, token, interests, fail)
         IN  [inner EXCEPT !.calls =
                 <<Invocation("register", deref(self), registry, token, interests, inner.res)>> \o @]

reregister_swallowsError(self, registry, token, interests, fail) ==
    IF self.depth = 0 THEN SysReregister(self.res, registry, token, interests, fail)
    ELSE LET inner == reregister(deref(self), registry, token, interests, fail)
         IN  [inner EXCEPT !.res = "Ok", !.calls =
                 <<Invocation("reregister", deref(self), registry, token, interests, inner.res)>> \o @]

deregister_doesNothing(self, registry, fail) ==
    IF self.depth = 0 THEN SysDeregister(self.res, registry, fail)
    ELSE Outcome("Ok", registry)

deregister_swallowsError(self, registry, fail) ==
    IF self.depth = 0 THEN SysDeregister(self.res, registry, fail)
    ELSE LET inner == deregister(deref(self), registry, fail)
         IN  [inner EXCEPT !.res = "Ok", !.calls =
                 <<InvocationNoArgs("deregister", deref(self), registry, inner.res)>> \o @]

\* impl<T, E> Evented for T :: register
register(self, registry, token, interests, fail) ==
    IF self.depth = 0 THEN SysRegister(self.res, registry, token, interests, fail)
    ELSE LET inner == register(deref(self), registry, token, interests, fail)
         IN  [inner EXCEPT !.calls =
                 <<Invocation("register", deref(self), registry, token, interests, inner.res)>> \o @]

\* impl<T, E> Evented for T :: reregister
reregister(self, registry, token, interests, fail) ==
    IF self.depth = 0 THEN SysReregister(self.res, registry, token, interests, fail)
    ELSE LET inner == reregister(deref(self), registry, token, interests, fail)
         IN  [inner EXCEPT !.calls =
                 <<Invocation("reregister", deref(self), registry, token, interests, inner.res)>> \o @]

\* impl<T, E> Evented for T :: deregister
deregister(self, registry, fail) ==
    IF self.depth = 0 THEN SysDeregister(self.res, registry, fail)
    ELSE LET inner == deregister(deref(self), registry, fail)
         IN  [inner EXCEPT !.calls =
                 <<InvocationNoArgs("deregister", deref(self), registry, inner.res)>> \o @]

\* What the caller knows of r after a call returned `res`.
\* `via` is the call that set the token and `old` the token it replaced (the token
\* itself after a register).
Registered(token, interests, via, old) ==
    [status |-> "registered", token |-> token, interests |-> interests,
     via |-> via, old |-> old]
\* After a successful deregister; `had` holds the token the caller knew before it.
Deregistered(v) ==
    [status |-> "deregistered", had |-> IF v.status = "registered" THEN {v.token} ELSE {}]
Never == [status |-> "never"]

\* The token the caller last knew for a resource (the new one when it knew none).
KnownToken(v, token) == IF v.status = "registered" THEN v.token ELSE token

Init ==
    /\ reg = {}
    /\ alive = [r \in Resources |-> TRUE]
    /\ view = [r \in Resources |-> Never]
    /\ last = NoCall
    /\ event = NoEvent

\* Between two steps of the caller nothing is pending.
Idle == last = NoCall /\ event = NoEvent

CallRegister(h, token, interests, fail) ==
    /\ Idle
    /\ alive[h.res]
    /\ LET out == register(h, reg, token, interests, fail) IN
        /\ reg' = out.reg
        /\ last' = [op |-> "register", h |-> h, token |-> token, interests |-> interests,
                    fail |-> fail, res |-> out.res, calls |-> out.calls,
                    pre |-> reg, was |-> view[h.res]]
        /\ view' = IF out.res = "Ok"
                   THEN [view EXCEPT ![h.res] = Registered(token, interests, "register", token)]
                   ELSE view
    /\ UNCHANGED <<alive, event>>

CallReregister(h, token, interests, fail) ==
    /\ Idle
    /\ alive[h.res]
    /\ LET out == reregister(h, reg, token, interests, fail) IN
        /\ reg' = out.reg
        /\ last' = [op |-> "reregister", h |-> h, token |-> token, interests |-> interests,
                    fail |-> fail, res |-> out.res, calls |-> out.calls,
                    pre |-> reg, was |-> view[h.res]]
        /\ view' = IF out.res = "Ok"
                   THEN [view EXCEPT ![h.res] =
                             Registered(token, interests, "reregister", KnownToken(@, token))]
                   ELSE view
    /\ UNCHANGED <<alive, event>>

CallDeregister(h, fail) ==
    /\ Idle
    /\ alive[h.res]
    /\ LET out == deregister(h, reg, fail) IN
        /\ reg' = out.reg
        /\ last' = [op |-> "deregister", h |-> h, fail |-> fail, res |-> out.res,
                    calls |-> out.calls, pre |-> reg, was |-> view[h.res]]
        /\ view' = IF out.res = "Ok"
                   THEN [view EXCEPT ![h.res] = Deregistered(@)]
                   ELSE view
    /\ UNCHANGED <<alive, event>>

\* A drop that deregisters, as a type that cleans up after itself would.
Drop_deregisters(r) ==
    /\ Idle
    /\ alive[r]
    /\ alive' = [alive EXCEPT ![r] = FALSE]
    /\ reg' = reg \ AssocsOf(reg, r)
    /\ UNCHANGED <<view, last, event>>

\* The resource is dropped: nothing is called on the registry.
Drop(r) ==
    /\ Idle
    /\ alive[r]
    /\ alive' = [alive EXCEPT ![r] = FALSE]
    /\ UNCHANGED <<reg, view, last, event>>

\* The registry reports one readiness event of an association it holds.
Poll ==
    /\ Idle
    /\ \E a \in reg : \E k \in a.interests :
          event' = [kind |-> k, res |-> a.res, token |-> a.token]
    /\ UNCHANGED <<reg, alive, view, last>>

\* The caller has looked at the result of its call, or at the event, and goes on.
Return ==
    /\ ~Idle
    /\ last' = NoCall
    /\ event' = NoEvent
    /\ UNCHANGED <<reg, alive, view>>

Next ==
    \/ \E h \in Handles, token \in Tokens, interests \in InterestSets, fail \in BOOLEAN :
          CallRegister(h, token, interests, fail)
    \/ \E h \in Handles, token \in Tokens, interests \in InterestSets, fail \in BOOLEAN :
          CallReregister(h, token, interests, fail)
    \/ \E h \in Handles, fail \in BOOLEAN : CallDeregister(h, fail)
    \/ \E r \in Resources : Drop(r)
    \/ Poll
    \/ Return

Spec == Init /\ [][Next]_vars

(***************************************************************************)
(* Properties.  `last` holds the call that has just returned: its          *)
(* arguments, its result, the registry before it (pre) and the caller's    *)
(* view of the resource before it (was).                                   *)
(***************************************************************************)
IsCall == last.op # "none"
HasArgs(c) == c.op \in {"register", "reregister"}
\* The association a register or reregister call asks for.
Asked(c) == Assoc(c.h.res, c.token, c.interests)

\* The same operation with the same arguments, called on the resource itself from
\* the registry the call started from.
OnResource(c) ==
    CASE c.op = "register" -> SysRegister(c.h.res, c.pre, c.token, c.interests, c.fail)
      [] c.op = "reregister" -> SysReregister(c.h.res, c.pre, c.token, c.interests, c.fail)
      [] c.op = "deregister" -> SysDeregister(c.h.res, c.pre, c.fail)

\* C1: a call of register, reregister or deregister on a wrapper, at any nesting
\* depth, returns the same result and leaves the registry in the same state as the
\* same call with the same arguments on the inner resource from the same registry.
C1_DelegationTransparency ==
    (IsCall /\ last.h.depth >= 1) =>
        /\ last.res = OnResource(last).res
        /\ reg = OnResource(last).reg

\* A reregister through a wrapper of a wrapper that succeeded and changed the registry.
C1_Witness ==
    /\ IsCall /\ last.op = "reregister" /\ last.h.depth >= 2
    /\ last.res = "Ok" /\ reg # last.pre

\* C2 as stated: after a successful register and a successful deregister the
\* resource has no association, and the next register (same or different token and
\* interests) succeeds and establishes exactly one association.
C2_Original ==
    /\ \A r \in Resources : view[r].status = "deregistered" => AssocsOf(reg, r) = {}
    /\ (IsCall /\ last.op = "register" /\ last.was.status = "deregistered") =>
          /\ last.res = "Ok"
          /\ AssocsOf(reg, last.h.res) = {Asked(last)}

\* C2 amended: after a successful register and a successful deregister the resource
\* has no association, and the next register (same or different token and
\* interests) succeeds and establishes exactly one association unless the
\* underlying system call itself fails; then it returns that error and
\* establishes nothing.
C2_ReregistrationAfterDeregistration ==
    /\ \A r \in Resources : view[r].status = "deregistered" => AssocsOf(reg, r) = {}
    /\ (IsCall /\ last.op = "register" /\ last.was.status = "deregistered") =>
          IF last.fail
          THEN last.res = "SysErr" /\ AssocsOf(reg, last.h.res) = {}
          ELSE last.res = "Ok" /\ AssocsOf(reg, last.h.res) = {Asked(last)}

\* A register after a deregister that succeeded with a token other than the one the
\* resource had before.
C2_Witness ==
    /\ IsCall /\ last.op = "register" /\ last.was.status = "deregistered"
    /\ last.res = "Ok" /\ last.h.depth >= 1
    /\ last.token \notin last.was.had
    /\ last.was.had # {}

\* C3: reregister on a resource with no active association (never registered, or
\* deregistered) fails with the not-registered error and creates no association.
C3_ReregisterNeedsRegistration ==
    (IsCall /\ last.op = "reregister" /\ last.was.status \in {"never", "deregistered"}) =>
        /\ last.res = "NotRegistered"
        /\ AssocsOf(reg, last.h.res) = {}
        /\ reg = last.pre

\* A reregister through a wrapper on a resource that had been deregistered.
C3_Witness ==
    /\ IsCall /\ last.op = "reregister" /\ last.was.status = "deregistered"
    /\ last.h.depth >= 1 /\ last.res = "NotRegistered"

C5_DeregisterNotIdempotent ==
    (IsCall /\ last.op = "deregister" /\ last.was.status \in {"never", "deregistered"}) =>
        /\ last.res = "NotRegistered"
        /\ reg = last.pre

\* A deregister of a deregistered resource while another resource is registered.
C5_Witness ==
    /\ IsCall /\ last.op = "deregister" /\ last.was.status = "deregistered"
    /\ last.res = "NotRegistered" /\ reg # {}

\* C6: after a successful reregister exactly one association of the resource
\* remains, with the new token and interests, and every readiness event delivered
\* for the resource from then on carries the new token, never the old one.
C6_ReregisterReplaces ==
    /\ (IsCall /\ last.op = "reregister" /\ last.res = "Ok") =>
          AssocsOf(reg, last.h.res) = {Asked(last)}
    /\ (event # NoEvent /\ view[event.res].status = "registered"
          /\ view[event.res].via = "reregister") =>
          /\ event.token = view[event.res].token
          /\ event.kind \in view[event.res].interests

\* An event for a resource whose token a reregister has changed.
C6_Witness ==
    /\ event # NoEvent
    /\ view[event.res].status = "registered"
    /\ view[event.res].via = "reregister"
    /\ view[event.res].old # view[event.res].token
    /\ event.token = view[event.res].token

\* C7: the registry delivers a readiness event for a resource only while it has an
\* active association: never before a successful register, and never after a
\* successful deregister until it is registered again.
C7_EventsOnlyWhileRegistered ==
    event # NoEvent =>
        /\ view[event.res].status = "registered"
        /\ AssocsOf(reg, event.res) # {}

\* An event for one resource while the other one has been deregistered.
C7_Witness ==
    /\ event # NoEvent
    /\ \E r \in Resources : r # event.res /\ view[r].status = "deregistered"

\* C8: a call that returns an error, directly or through a wrapper, leaves the set
\* of associations as it was; a call that returns success has established, replaced
\* or removed the resource's association, and nothing else.
C8_NoPartialSuccess ==
    IsCall =>
        LET r == last.h.res
            before == AssocsOf(last.pre, r)
        IN  IF last.res # "Ok" THEN reg = last.pre
            ELSE CASE last.op = "register" ->
                        before = {} /\ reg = last.pre \cup {Asked(last)}
                   [] last.op = "reregister" ->
                        Cardinality(before) = 1
                        /\ reg = (last.pre \ before) \cup {Asked(last)}
                   [] last.op = "deregister" ->
                        Cardinality(before) = 1 /\ reg = last.pre \ before

\* A system-call failure through a wrapper, with another association in place.
C8_Witness ==
    /\ IsCall /\ last.res = "SysErr" /\ last.h.depth >= 1
    /\ last.op = "reregister"
    /\ Cardinality(reg) = 2

C10_SingleForwarding ==
    (IsCall /\ last.h.depth >= 1) =>
        /\ Len(last.calls) = last.h.depth
        /\ \A i \in 1..Len(last.calls) :
              /\ last.calls[i].op = last.op
              /\ last.calls[i].on = [res |-> last.h.res, depth |-> last.h.depth - i]
              /\ last.calls[i].registry = last.pre
              /\ last.calls[i].res = last.res
              /\ HasArgs(last) =>
                    /\ last.calls[i].token = last.token
                    /\ last.calls[i].interests = last.interests

\* A register through two layers that came back with the system call's error.
C10_Witness ==
    /\ IsCall /\ last.op = "register" /\ last.h.depth >= 2
    /\ last.res = "SysErr"
    /\ Len(last.calls) >= 2

====
